---------------------------- MODULE Spec2Model ----------------------------
(***************************************************************************)
(* Seat reservation core of the bus reservation system: the Booking and    *)
(* Trip rows, the hold / confirm / cancel operations of bus_app.services,  *)
(* bus_app.views and frontend.views, and the clock they read.              *)
(*                                                                         *)
(* Time is counted in minutes.  A request that creates or confirms a       *)
(* booking is modelled in the steps in which it touches the database       *)
(* (read, validate, write), so that concurrent requests interleave the way *)
(* they do on a store that gives atomic transactions but no serialisation. *)
(***************************************************************************)
EXTENDS Integers, FiniteSets

(* ------------------------------ bounds -------------------------------- *)
MaxCapacity == 2        \* Bus.capacity of the bus of a trip is in 1..MaxCapacity
MaxBookings == 2        \* booking rows ever inserted (auto-increment ids)
NumSlots == 2           \* requests in flight at the same time
MaxPayments == 1        \* payment requests in flight at the same time
Radius == 1             \* the clock is observed this many minutes after each deadline

(* ------------------------- program constants -------------------------- *)
HOLD_TIME_MINUTES == 5
CancelCutoffSeconds == 24 * 3600

Null == -1              \* None / SQL NULL of a nullable timestamp

\* the trips of the schedule: one trip, or two where trips are set side by side
OneTrip == {1}
TwoTrips == {1, 2}
Users == {"alice", "bob"}
Slots == 1..NumSlots
SeatInputs == 0..(MaxCapacity + 1)

\* Trip.departure_time: 24 h 05 min after the start of the run, so that the
\* 24 h cancellation cutoff and the expiry of a hold taken at the start fall
\* on the same observed minutes.
departure_time(t) == 24 * 60 + HOLD_TIME_MINUTES

\* the minutes at which the system is observed: the start, the expiry of a
\* hold taken at the start and the minutes after it, the departure and the
\* minutes after it
Instants ==
    {0} \cup (HOLD_TIME_MINUTES..(HOLD_TIME_MINUTES + Radius))
        \cup (departure_time(1)..(departure_time(1) + Radius))

VARIABLES now, trips, bookings, next_id, reqs

\* the stored trips
TripIds == DOMAIN trips

\* trip.bus.capacity
capacity(t) == trips[t].capacity

vars == <<now, trips, bookings, next_id, reqs>>

(* ------------------------------ rows ---------------------------------- *)
NoRow == [id |-> 0, user |-> "none", trip |-> 0, seat_number |-> 0,
          is_confirmed |-> FALSE, is_cancelled |-> FALSE,
          payment_status |-> "none", hold_expires_at |-> Null]

IdleSlot == [pc |-> "idle", op |-> "none", tstatus |-> "none", row |-> NoRow]

\* Booking(...) as constructed in memory before it has a primary key
NewBooking(u, t, s, confirmed, pay, hold) ==
    [id |-> 0, user |-> u, trip |-> t, seat_number |-> s,
     is_confirmed |-> confirmed, is_cancelled |-> FALSE,
     payment_status |-> pay, hold_expires_at |-> hold]

TripBookings(rows, t) == {b \in rows : b.trip = t}

(* --------------------- the activity predicates ------------------------ *)
\* Q(is_confirmed=True) | Q(payment_status="pending", hold_expires_at__gt=now)
\* on rows with is_cancelled=False (a NULL hold_expires_at compares false)
IsActive(b, at) ==
    /\ ~b.is_cancelled
    /\ \/ b.is_confirmed
       \/ /\ b.payment_status = "pending"
          /\ b.hold_expires_at # Null
          /\ b.hold_expires_at > at

ActiveBookings(rows, t, at) == {b \in TripBookings(rows, t) : IsActive(b, at)}

\* the seat list of a model that ignores holds: confirmed seats only
booked_seats_confirmed_only(rows, t, at) ==
    {b.seat_number : b \in {x \in TripBookings(rows, t) :
        ~x.is_cancelled /\ x.is_confirmed}}

\* Trip.booked_seats
booked_seats(rows, t, at) ==
    {b.seat_number : b \in {x \in TripBookings(rows, t) :
        /\ ~x.is_cancelled
        /\ x.payment_status \notin {"refunded", "failed"}
        /\ \/ x.is_confirmed
           \/ /\ x.payment_status = "pending"
              /\ x.hold_expires_at # Null
              /\ x.hold_expires_at > at}}

\* Trip.available_seats
available_seats(rows, t, at) ==
    {s \in 1..capacity(t) : s \notin booked_seats(rows, t, at)}

\* a delete() that does not look at the clock: every unconfirmed pending row
PendingHolds(rows, t, at) ==
    {b \in TripBookings(rows, t) : ~b.is_confirmed /\ b.payment_status = "pending"}

\* a delete() that looks at the deadline alone
HoldsPastDeadline(rows, t, at) ==
    {b \in TripBookings(rows, t) : b.hold_expires_at # Null /\ b.hold_expires_at < at}

\* the delete() of booking_page: unconfirmed pending rows whose hold is in the past
ExpiredHolds(rows, t, at) ==
    {b \in TripBookings(rows, t) :
        /\ ~b.is_confirmed
        /\ b.payment_status = "pending"
        /\ b.hold_expires_at # Null
        /\ b.hold_expires_at < at}

\* a delete() that removes one expired hold per call
SweepOne(rows, t, at) ==
    IF ExpiredHolds(rows, t, at) = {} THEN rows
    ELSE rows \ {CHOOSE b \in ExpiredHolds(rows, t, at) : TRUE}

Sweep(rows, t, at) == rows \ ExpiredHolds(rows, t, at)

(* ----------------------------- validation ----------------------------- *)
\* the seat conflict loop of Booking.clean
SeatConflict(self, rows, at) ==
    \E b \in rows :
        /\ b.trip = self.trip
        /\ b.seat_number = self.seat_number
        /\ ~b.is_cancelled
        /\ b.id # self.id
        /\ \/ b.is_confirmed
           \/ /\ b.payment_status = "pending"
              /\ b.hold_expires_at # Null
              /\ b.hold_expires_at > at

\* Booking.clean, with the status of the Trip object the instance refers to;
\* the result is "ok" or the kind of the ValidationError raised
Booking_clean(self, tstatus, rows, at) ==
    IF tstatus = "cancelled" /\ ~self.is_cancelled THEN "TripNotBookable"
    ELSE IF self.seat_number > capacity(self.trip) THEN "SeatOutOfRange"
    ELSE IF SeatConflict(self, rows, at) THEN "SeatUnavailable"
    ELSE IF /\ ~self.is_cancelled
            /\ Cardinality(ActiveBookings(rows, self.trip, at)) >= capacity(self.trip)
         THEN "TripFull"
    ELSE "ok"

\* the model without the unique constraint
unique_constraint_dropped(self, rows) == FALSE

\* a constraint that counts only the confirmed rows of the seat
unique_confirmed_seat_per_trip(self, rows) ==
    /\ ~self.is_cancelled
    /\ \E b \in rows :
        /\ b.id # self.id
        /\ b.trip = self.trip
        /\ b.seat_number = self.seat_number
        /\ ~b.is_cancelled
        /\ b.is_confirmed

\* UniqueConstraint unique_active_seat_per_trip: would writing self break it
unique_active_seat_per_trip(self, rows) ==
    /\ ~self.is_cancelled
    /\ \E b \in rows :
        /\ b.id # self.id
        /\ b.trip = self.trip
        /\ b.seat_number = self.seat_number
        /\ ~b.is_cancelled

\* a Trip.save that does not validate
Trip_clean_skipped(t, at) == "ok"

\* Trip.clean as run by Trip.save (arrival_time is never changed by the core)
Trip_clean(t, at) == IF departure_time(t) < at THEN "TripDeparted" ELSE "ok"

(* ------------------------------- Init --------------------------------- *)
Init ==
    /\ now = 0
    /\ \E c \in 1..MaxCapacity :
        trips = [t \in OneTrip |->
                    [status |-> "scheduled", is_active |-> TRUE, capacity |-> c]]
    /\ bookings = {}
    /\ next_id = 1
    /\ reqs = [r \in Slots |-> IdleSlot]

\* the same start with two trips, on buses of the largest capacity
InitTwoTrips ==
    /\ now = 0
    /\ trips = [t \in TwoTrips |->
                    [status |-> "scheduled", is_active |-> TRUE,
                     capacity |-> MaxCapacity]]
    /\ bookings = {}
    /\ next_id = 1
    /\ reqs = [r \in Slots |-> IdleSlot]

(* ------------------------------- clock -------------------------------- *)
LaterInstants(n) == {i \in Instants : i > n}

NextInstant(n) == CHOOSE i \in LaterInstants(n) : \A j \in LaterInstants(n) : i <= j

\* time passes; a save() in progress (validated, not yet written) is one instant
Tick ==
    /\ LaterInstants(now) # {}
    /\ \A r \in Slots : reqs[r].pc # "validated"
    /\ now' = NextInstant(now)
    /\ UNCHANGED <<trips, bookings, next_id, reqs>>

(* ------------------------- requests in flight ------------------------- *)
\* a new request takes the first free slot (the slots are interchangeable)
FreeSlot(r) ==
    /\ reqs[r].pc = "idle"
    /\ \A q \in Slots : q < r => reqs[q].pc # "idle"

\* requests that will still insert a row: the id counter stays within MaxBookings
InFlightCreates ==
    Cardinality({r \in Slots : reqs[r].op \in {"booking_page", "create_booking"}})

\* the users are interchangeable: the one who books first is called alice
FirstUser(u) == next_id + InFlightCreates = 1 => u = "alice"

\* payments that have read their booking and not yet saved it
InFlightPayments ==
    Cardinality({r \in Slots : reqs[r].op \in {"payment_page", "FakePayment"}})

(* --------------------------- hold creation ---------------------------- *)
\* booking_page, GET: the departure check and the release of expired holds
booking_page_get(t) ==
    /\ departure_time(t) > now
    /\ bookings' = Sweep(bookings, t, now)
    /\ UNCHANGED <<now, trips, next_id, reqs>>

\* booking_page, POST, up to the availability pre-check: "ok" when the request
\* goes on to create the booking, else the kind of the error message
booking_page_result(rows, t, s, at) ==
    IF departure_time(t) <= at THEN "TripDeparted"
    ELSE IF s \notin available_seats(Sweep(rows, t, at), t, at) THEN "SeatUnavailable"
    ELSE "ok"

\* the rows booking_page leaves behind before it looks at the posted seat
booking_page_rows(rows, t, at) ==
    IF departure_time(t) <= at THEN rows ELSE Sweep(rows, t, at)

\* booking_page, POST: the trip is read, the expired holds are deleted, the
\* posted seat is looked up in available_seats
booking_page(r, u, t, s) ==
    /\ FreeSlot(r)
    /\ FirstUser(u)
    /\ booking_page_result(bookings, t, s, now) = "ok" =>
            next_id + InFlightCreates <= MaxBookings
    /\ bookings' = booking_page_rows(bookings, t, now)
    /\ reqs' = IF booking_page_result(bookings, t, s, now) = "ok"
               THEN [reqs EXCEPT ![r] =
                        [pc |-> "checked", op |-> "booking_page",
                         tstatus |-> trips[t].status,
                         row |-> NewBooking(u, t, s, FALSE, "pending", Null)]]
               ELSE reqs
    /\ UNCHANGED <<now, trips, next_id>>

\* create_booking up to the construction of the Booking: the checks on the Trip
\* object the caller passed in
create_booking_result(trip, t, at) ==
    IF ~trip.is_active THEN "TripNotBookable"
    ELSE IF trip.status = "cancelled" THEN "TripNotBookable"
    ELSE IF departure_time(t) <= at THEN "TripDeparted"
    ELSE "ok"

create_booking(r, u, t, s) ==
    /\ FreeSlot(r)
    /\ FirstUser(u)
    /\ next_id + InFlightCreates <= MaxBookings
    /\ create_booking_result(trips[t], t, now) = "ok"
    /\ reqs' = [reqs EXCEPT ![r] =
                    [pc |-> "checked", op |-> "create_booking",
                     tstatus |-> trips[t].status,
                     row |-> NewBooking(u, t, s, TRUE, "paid", Null)]]
    /\ UNCHANGED <<now, trips, bookings, next_id>>

\* the hold_expires_at the creating code passes to the constructor
NewHoldExpiry(op, at) ==
    IF op = "booking_page" THEN at + HOLD_TIME_MINUTES ELSE Null

\* the Booking instance a request in flight is about to save
Constructed(r) ==
    [reqs[r].row EXCEPT !.hold_expires_at = NewHoldExpiry(reqs[r].op, now)]

\* full_clean of the new instance against the rows stored now
HoldValidateResult(r) == Booking_clean(Constructed(r), reqs[r].tstatus, bookings, now)

\* Booking.save of a new row, first half: the instance is constructed and validated
HoldValidate(r) ==
    /\ reqs[r].pc = "checked"
    /\ reqs' = IF HoldValidateResult(r) = "ok"
               THEN [reqs EXCEPT ![r].pc = "validated", ![r].row = Constructed(r)]
               ELSE [reqs EXCEPT ![r] = IdleSlot]
    /\ UNCHANGED <<now, trips, bookings, next_id>>

\* an INSERT that never meets the unique constraint
HoldInsertUnchecked(r) == "ok"

\* the INSERT under the unique constraint
HoldInsertResult(r) ==
    IF unique_active_seat_per_trip(reqs[r].row, bookings) THEN "SeatUnavailable"
    ELSE "ok"

\* Booking.save of a new row, second half
HoldInsert(r) ==
    /\ reqs[r].pc = "validated"
    /\ IF HoldInsertResult(r) = "ok"
       THEN /\ bookings' = bookings \cup
                    {[reqs[r].row EXCEPT !.id = next_id]}
            /\ next_id' = next_id + 1
       ELSE UNCHANGED <<bookings, next_id>>
    /\ reqs' = [reqs EXCEPT ![r] = IdleSlot]
    /\ UNCHANGED <<now, trips>>

(* ---------------------------- confirmation ---------------------------- *)
RowsWithId(rows, id) == {b \in rows : b.id = id}

\* a lookup by id alone
AnyRows(rows, u, id) == RowsWithId(rows, id)

\* get_object_or_404(Booking, id=..., user=...)
OwnRows(rows, u, id) == {b \in RowsWithId(rows, id) : b.user = u}

\* payment_page, POST, up to the save
payment_page_result(rows, u, id) ==
    IF OwnRows(rows, u, id) = {} THEN "BookingNotFound"
    ELSE IF \E b \in OwnRows(rows, u, id) : b.is_cancelled THEN "AlreadyCancelled"
    ELSE "ok"

\* payment_page, POST: the booking is read and marked paid in memory
payment_page(r, u, id) ==
    /\ FreeSlot(r)
    /\ InFlightPayments < MaxPayments
    /\ payment_page_result(bookings, u, id) = "ok"
    /\ \E b \in OwnRows(bookings, u, id) :
        reqs' = [reqs EXCEPT ![r] =
                    [pc |-> "fetched", op |-> "payment_page", tstatus |-> "none",
                     row |-> [b EXCEPT !.payment_status = "paid",
                                       !.is_confirmed = TRUE,
                                       !.hold_expires_at = Null]]]
    /\ UNCHANGED <<now, trips, bookings, next_id>>

\* FakePaymentAPIView.post up to the save
FakePaymentAPIView_post_result(rows, u, id) ==
    IF OwnRows(rows, u, id) = {} THEN "BookingNotFound" ELSE "ok"

FakePaymentAPIView_post(r, u, id) ==
    /\ FreeSlot(r)
    /\ InFlightPayments < MaxPayments
    /\ FakePaymentAPIView_post_result(bookings, u, id) = "ok"
    /\ \E b \in OwnRows(bookings, u, id) :
        reqs' = [reqs EXCEPT ![r] =
                    [pc |-> "fetched", op |-> "FakePayment", tstatus |-> "none",
                     row |-> [b EXCEPT !.payment_status = "paid",
                                       !.is_confirmed = TRUE]]]
    /\ UNCHANGED <<now, trips, bookings, next_id>>

\* Model.save of an instance that has a primary key: UPDATE of every field, or
\* INSERT when no row with that key is left
SaveRow(self, rows) == (rows \ RowsWithId(rows, self.id)) \cup {self}

\* Booking.save of a loaded instance: full_clean (Booking.clean reads the trip
\* of the booking now), then the write under the unique constraint
Booking_save(self, trs, rows, at) ==
    LET res == Booking_clean(self, trs[self.trip].status, rows, at)
    IN  IF res # "ok" THEN [res |-> res, rows |-> rows]
        ELSE IF unique_active_seat_per_trip(self, rows)
             THEN [res |-> "SeatUnavailable", rows |-> rows]
        ELSE [res |-> "ok", rows |-> SaveRow(self, rows)]

\* the booking.save() of payment_page and of FakePaymentAPIView.post
PaymentSave(r) ==
    /\ reqs[r].pc = "fetched"
    /\ bookings' = Booking_save(reqs[r].row, trips, bookings, now).rows
    /\ reqs' = [reqs EXCEPT ![r] = IdleSlot]
    /\ UNCHANGED <<now, trips, next_id>>

(* ---------------------------- cancellation ---------------------------- *)
TooLateToCancel(t, at) == (departure_time(t) - at) * 60 < CancelCutoffSeconds

\* cancel_booking called by user u on booking b: the outcome and the rows after it
cancel_booking_out(b, u, trs, rows, at) ==
    IF b.user # u THEN [res |-> "NotOwner", rows |-> rows]
    ELSE IF b.is_cancelled THEN [res |-> "AlreadyCancelled", rows |-> rows]
    ELSE IF trs[b.trip].status = "completed" THEN [res |-> "TripCompleted", rows |-> rows]
    ELSE IF TooLateToCancel(b.trip, at) THEN [res |-> "TooLateToCancel", rows |-> rows]
    ELSE Booking_save([b EXCEPT !.is_cancelled = TRUE, !.is_confirmed = FALSE,
                                !.payment_status = "failed"], trs, rows, at)

cancel_booking(u, id) ==
    /\ \E b \in RowsWithId(bookings, id) :
        bookings' = cancel_booking_out(b, u, trips, bookings, now).rows
    /\ UNCHANGED <<now, trips, next_id, reqs>>

\* CancelBookingAPIView.post by user u for booking b: the IsBookingOwner
\* permission, then cancel_booking
CancelBookingAPIView_post_out(b, u, trs, rows, at) ==
    IF b.user # u THEN [res |-> "NotOwner", rows |-> rows]
    ELSE cancel_booking_out(b, u, trs, rows, at)

\* a refund that leaves the booking confirmed and not cancelled
refund_without_cancellation(b, u, trs, rows, at) ==
    IF b.user # u THEN [res |-> "BookingNotFound", rows |-> rows]
    ELSE IF b.is_cancelled THEN [res |-> "AlreadyCancelled", rows |-> rows]
    ELSE Booking_save([b EXCEPT !.payment_status =
                                    IF b.payment_status = "paid" THEN "refunded"
                                    ELSE b.payment_status], trs, rows, at)

\* cancel_booking_page requested by user u for booking b
cancel_booking_page_out(b, u, trs, rows, at) ==
    IF b.user # u THEN [res |-> "BookingNotFound", rows |-> rows]
    ELSE IF b.is_cancelled THEN [res |-> "AlreadyCancelled", rows |-> rows]
    ELSE Booking_save([b EXCEPT !.is_cancelled = TRUE, !.is_confirmed = FALSE,
                                !.payment_status =
                                    IF b.payment_status = "paid" THEN "refunded"
                                    ELSE b.payment_status], trs, rows, at)

cancel_booking_page(u, id) ==
    /\ \E b \in RowsWithId(bookings, id) :
        bookings' = cancel_booking_page_out(b, u, trips, bookings, now).rows
    /\ UNCHANGED <<now, trips, next_id, reqs>>

\* an update(...) that is not restricted to the bookings of the trip
CascadeCancelEveryTrip(rows, t) ==
    {[b EXCEPT !.is_cancelled = TRUE, !.is_confirmed = FALSE,
               !.payment_status = "failed"] : b \in rows}

\* trip.bookings.update(...) of cancel_trip
CascadeCancel(rows, t) ==
    {IF b.trip = t
     THEN [b EXCEPT !.is_cancelled = TRUE, !.is_confirmed = FALSE,
                    !.payment_status = "failed"]
     ELSE b : b \in rows}

\* a cancel_trip that does not look at the status of the trip
cancel_trip_reapplied(t, trs, rows, at) ==
    IF Trip_clean(t, at) # "ok"
    THEN [res |-> Trip_clean(t, at), trips |-> trs, rows |-> rows]
    ELSE [res |-> "ok",
          trips |-> [trs EXCEPT ![t].status = "cancelled", ![t].is_active = FALSE],
          rows |-> CascadeCancel(rows, t)]

\* cancel_trip: the outcome, the trips and the rows after it
cancel_trip_out(t, trs, rows, at) ==
    IF trs[t].status = "cancelled"
    THEN [res |-> "TripAlreadyCancelled", trips |-> trs, rows |-> rows]
    ELSE IF Trip_clean(t, at) # "ok"
    THEN [res |-> Trip_clean(t, at), trips |-> trs, rows |-> rows]
    ELSE [res |-> "ok",
          trips |-> [trs EXCEPT ![t].status = "cancelled", ![t].is_active = FALSE],
          rows |-> CascadeCancel(rows, t)]

cancel_trip(t) ==
    /\ cancel_trip_out(t, trips, bookings, now).res = "ok"
    /\ trips' = cancel_trip_out(t, trips, bookings, now).trips
    /\ bookings' = cancel_trip_out(t, trips, bookings, now).rows
    /\ UNCHANGED <<now, next_id, reqs>>

\* a complete_trip that does not look at the status of the trip
complete_trip_any_status(t, trs, at) ==
    IF Trip_clean(t, at) # "ok" THEN [res |-> Trip_clean(t, at), trips |-> trs]
    ELSE [res |-> "ok",
          trips |-> [trs EXCEPT ![t].status = "completed", ![t].is_active = FALSE]]

\* complete_trip: the outcome and the trips after it
complete_trip_out(t, trs, at) ==
    IF trs[t].status # "scheduled" THEN [res |-> "TripNotScheduled", trips |-> trs]
    ELSE IF Trip_clean(t, at) # "ok" THEN [res |-> Trip_clean(t, at), trips |-> trs]
    ELSE [res |-> "ok",
          trips |-> [trs EXCEPT ![t].status = "completed", ![t].is_active = FALSE]]

complete_trip(t) ==
    /\ complete_trip_out(t, trips, now).res = "ok"
    /\ trips' = complete_trip_out(t, trips, now).trips
    /\ UNCHANGED <<now, bookings, next_id, reqs>>

(* ---------------------------- specification --------------------------- *)
BookingIds == 1..MaxBookings

Next ==
    \/ Tick
    \/ \E t \in TripIds : booking_page_get(t)
    \/ \E r \in Slots, u \in Users, t \in TripIds, s \in SeatInputs : booking_page(r, u, t, s)
    \/ \E r \in Slots, u \in Users, t \in TripIds, s \in SeatInputs : create_booking(r, u, t, s)
    \/ \E r \in Slots : HoldValidate(r)
    \/ \E r \in Slots : HoldInsert(r)
    \/ \E r \in Slots, u \in Users, id \in BookingIds : payment_page(r, u, id)
    \/ \E r \in Slots, u \in Users, id \in BookingIds : FakePaymentAPIView_post(r, u, id)
    \/ \E r \in Slots : PaymentSave(r)
    \/ \E u \in Users, id \in BookingIds : cancel_booking(u, id)
    \/ \E u \in Users, id \in BookingIds : cancel_booking_page(u, id)
    \/ \E t \in TripIds : cancel_trip(t)
    \/ \E t \in TripIds : complete_trip(t)

Spec == Init /\ [][Next]_vars

TypeOK ==
    /\ now \in Instants
    /\ next_id \in 1..(MaxBookings + 1)
    /\ \A b \in bookings : b.id \in BookingIds /\ b.trip \in TripIds
    /\ \A r \in Slots : reqs[r].pc \in {"idle", "checked", "validated", "fetched"}


(* ------------------- hold creation of one seat, alone ----------------- *)
RaceTrip == CHOOSE t \in TripIds : TRUE

\* a seat that every bus has
RaceSeat == CHOOSE s \in 1..MaxCapacity : \A c \in 1..MaxCapacity : s <= c

\* nothing but attempts to reserve seat RaceSeat of trip RaceTrip, by any user
\* on either path, their steps interleaved
RaceNext ==
    \/ \E r \in Slots, u \in Users : booking_page(r, u, RaceTrip, RaceSeat)
    \/ \E r \in Slots, u \in Users : create_booking(r, u, RaceTrip, RaceSeat)
    \/ \E r \in Slots : HoldValidate(r)
    \/ \E r \in Slots : HoldInsert(r)

SpecRace == Init /\ [][RaceNext]_vars

(* ------------------------ two trips side by side ---------------------- *)
\* every operation, on either trip; the seat asked for is seat RaceSeat, so
\* that the two trips hold bookings of the same seat number
\* time passes up to the last observed minute before the departures
TickBeforeDeparture ==
    /\ Tick
    /\ \A t \in TripIds : now' < departure_time(t)

NextTwoTrips ==
    \/ TickBeforeDeparture
    \/ \E t \in TripIds : booking_page_get(t)
    \/ \E r \in Slots, u \in Users, t \in TripIds : booking_page(r, u, t, RaceSeat)
    \/ \E r \in Slots, u \in Users, t \in TripIds : create_booking(r, u, t, RaceSeat)
    \/ \E r \in Slots : HoldValidate(r)
    \/ \E r \in Slots : HoldInsert(r)
    \/ \E r \in Slots, u \in Users, id \in BookingIds : payment_page(r, u, id)
    \/ \E r \in Slots, u \in Users, id \in BookingIds : FakePaymentAPIView_post(r, u, id)
    \/ \E r \in Slots : PaymentSave(r)
    \/ \E u \in Users, id \in BookingIds : cancel_booking(u, id)
    \/ \E u \in Users, id \in BookingIds : cancel_booking_page(u, id)
    \/ \E t \in TripIds : cancel_trip(t)
    \/ \E t \in TripIds : complete_trip(t)

SpecTwoTrips == InitTwoTrips /\ [][NextTwoTrips]_vars

(* ------------------------------ properties ---------------------------- *)
\* the outcome of the step a request in flight takes next
StepResult(r) ==
    IF reqs[r].pc = "checked" THEN HoldValidateResult(r) ELSE HoldInsertResult(r)

\* the outcome of a whole hold-creation attempt made on the stored rows with no
\* other request in between: pre-check, validation, insert
AttemptOutcome(rows, op, u, t, s) ==
    LET pre == IF op = "booking_page" THEN booking_page_result(rows, t, s, now)
               ELSE create_booking_result(trips[t], t, now)
        kept == IF op = "booking_page" THEN Sweep(rows, t, now) ELSE rows
        self == IF op = "booking_page"
                THEN NewBooking(u, t, s, FALSE, "pending", NewHoldExpiry(op, now))
                ELSE NewBooking(u, t, s, TRUE, "paid", NewHoldExpiry(op, now))
        val == Booking_clean(self, trips[t].status, kept, now)
    IN  IF pre # "ok" THEN pre
        ELSE IF val # "ok" THEN val
        ELSE IF unique_active_seat_per_trip(self, kept) THEN "SeatUnavailable"
        ELSE "ok"

CreatePaths == {"booking_page", "create_booking"}

\* active as the data model defines it
Active(b) ==
    /\ b.is_cancelled = FALSE
    /\ \/ b.is_confirmed = TRUE
       \/ (b.payment_status = "pending" /\ b.hold_expires_at # Null
                                        /\ b.hold_expires_at > now)

ActiveOn(t, s) == {b \in bookings : b.trip = t /\ b.seat_number = s /\ Active(b)}

ActiveOf(t) == {b \in bookings : b.trip = t /\ Active(b)}

\* C1: in every reachable state, for every trip and seat number at most one
\* booking is active (not cancelled, and confirmed or pending with its hold
\* still running).
C1_CoreSeatInvariant ==
    \A t \in TripIds, s \in SeatInputs : Cardinality(ActiveOn(t, s)) <= 1

\* two bookings of the same seat are stored, one active and one not
C1_Witness ==
    \E b1 \in bookings, b2 \in bookings :
        /\ b1.id # b2.id
        /\ b1.trip = b2.trip /\ b1.seat_number = b2.seat_number
        /\ Active(b1) /\ ~Active(b2)

C3_CapacityInvariant ==
    \A t \in TripIds : Cardinality(ActiveOf(t)) <= capacity(t)

\* a hold of booking_page that was neither confirmed nor cancelled
OpenHold(b) ==
    /\ b.payment_status = "pending"
    /\ ~b.is_confirmed
    /\ ~b.is_cancelled
    /\ b.hold_expires_at # Null

\* C4: a hold that booking_page created at time T, neither confirmed nor
\* cancelled since, keeps its seat out of Trip.available_seats at every time
\* before T + 5 min and has it back in Trip.available_seats at every time after
\* T + 5 min, with no call made to release it.
C4_HoldExpiry ==
    \A b \in bookings :
        OpenHold(b) =>
            LET T == b.hold_expires_at - 5
            IN  /\ T \in Instants /\ T <= now
                /\ now < T + 5 => b.seat_number \notin available_seats(bookings, b.trip, now)
                /\ now > T + 5 => b.seat_number \in available_seats(bookings, b.trip, now)

\* an expired hold is still stored and its seat is offered again
C4_Witness ==
    \E b \in bookings :
        /\ OpenHold(b)
        /\ now > b.hold_expires_at
        /\ b.seat_number \in available_seats(bookings, b.trip, now)

\* a cancellation by the holder can be asked for: the booking is not cancelled
\* and its trip is not completed
Cancellable(b) == ~b.is_cancelled /\ trips[b.trip].status # "completed"

\* C5: on both holder-initiated cancellation paths, cancelling a booking less
\* than 24 hours before departure fails with the too-late-to-cancel outcome and
\* leaves the rows unchanged; at 24 hours or more before departure it succeeds.
C5_CancellationCutoff ==
    \A b \in bookings :
        Cancellable(b) =>
            LET svc == cancel_booking_out(b, b.user, trips, bookings, now)
                page == cancel_booking_page_out(b, b.user, trips, bookings, now)
            IN  IF departure_time(b.trip) - now < 24 * 60
                THEN /\ svc.res = "TooLateToCancel" /\ svc.rows = bookings
                     /\ page.res = "TooLateToCancel" /\ page.rows = bookings
                ELSE svc.res = "ok" /\ page.res = "ok"

\* C6: whenever the number of active bookings of a trip equals the capacity of
\* its bus, every further hold-creation attempt on the trip, for any seat
\* number, fails with the trip-full outcome, and Trip.available_seats is empty.
C6_FullTrip ==
    \A t \in TripIds :
        Cardinality(ActiveOf(t)) = capacity(t) =>
            /\ \A op \in CreatePaths, u \in Users, s \in SeatInputs :
                    AttemptOutcome(bookings, op, u, t, s) = "TripFull"
            /\ available_seats(bookings, t, now) = {}

\* a payment confirmation of booking b made now with no other request in
\* between: payment_page clears the hold, FakePaymentAPIView.post keeps it
ConfirmOut(b, op) ==
    Booking_save([b EXCEPT !.payment_status = "paid", !.is_confirmed = TRUE,
                           !.hold_expires_at =
                               IF op = "payment_page" THEN Null ELSE b.hold_expires_at],
                 trips, bookings, now)

ConfirmPaths == {"payment_page", "FakePayment"}

\* C7: a successful payment confirmation applied to a booking that is already
\* paid and confirmed raises no error and leaves every row unchanged, on both
\* confirmation paths.
C7_IdempotentConfirmation ==
    \A b \in bookings :
        (b.payment_status = "paid" /\ b.is_confirmed /\ ~b.is_cancelled) =>
            \A op \in ConfirmPaths :
                ConfirmOut(b, op).res = "ok" /\ ConfirmOut(b, op).rows = bookings

\* C8: the cascade of cancel_trip is atomic: no state is observable in which a
\* trip is cancelled (status cancelled, is_active false) while one of its
\* bookings is still active.
C8_CancelledTripHasNoActiveBooking ==
    \A t \in TripIds :
        trips[t].status = "cancelled" => ~trips[t].is_active /\ ActiveOf(t) = {}

\* the trip accepts holds now
Bookable(t) ==
    trips[t].status = "scheduled" /\ trips[t].is_active /\ departure_time(t) > now

\* C9: the seat of a confirmed booking is not in Trip.available_seats; once the
\* holder has cancelled that booking the seat is in Trip.available_seats again
\* and a new hold for it by another holder succeeds.
C9_RoundTrip ==
    \A b \in bookings :
        (b.is_confirmed /\ ~b.is_cancelled /\ b.seat_number \in 1..capacity(b.trip)) =>
            /\ b.seat_number \notin available_seats(bookings, b.trip, now)
            /\ \A out \in {cancel_booking_out(b, b.user, trips, bookings, now),
                           cancel_booking_page_out(b, b.user, trips, bookings, now)} :
                    (out.res = "ok" /\ Bookable(b.trip)) =>
                        /\ b.seat_number \in available_seats(out.rows, b.trip, now)
                        /\ \A u \in Users \ {b.user} :
                            AttemptOutcome(out.rows, "booking_page", u, b.trip,
                                           b.seat_number) = "ok"

\* C10: every booking a hold-creation operation has just created is pending,
\* not confirmed, not cancelled, and its hold expires 5 minutes after the
\* creation time, on both creation paths.
C10_HoldCreationResult ==
    [][next_id' # next_id =>
        \A b \in bookings' :
            b.id = next_id =>
                /\ b.payment_status = "pending"
                /\ b.is_confirmed = FALSE
                /\ b.is_cancelled = FALSE
                /\ b.hold_expires_at = now + 5]_vars

\* C11: when a payment confirmation of a hold succeeds, on either confirmation
\* path, the one write leaves the booking with payment_status paid,
\* is_confirmed true and hold_expires_at null.
C11_ConfirmationResult ==
    [][\A r \in Slots :
        (/\ PaymentSave(r)
         /\ Booking_save(reqs[r].row, trips, bookings, now).res = "ok"
         /\ \E b \in RowsWithId(bookings, reqs[r].row.id) : OpenHold(b)) =>
            \A b \in RowsWithId(bookings', reqs[r].row.id) :
                /\ b.payment_status = "paid"
                /\ b.is_confirmed = TRUE
                /\ b.hold_expires_at = Null]_vars

\* C12: on both hold-creation paths an attempt creates a booking only if, at
\* the time of the attempt, the trip is scheduled, active and departs strictly
\* after now; in particular not on a completed trip that has not yet departed.
C12_TripBookability ==
    \A t \in TripIds, op \in CreatePaths, u \in Users, s \in SeatInputs :
        AttemptOutcome(bookings, op, u, t, s) = "ok" => Bookable(t)

\* C13: a successful cancellation by the holder, on either path, leaves the
\* booking cancelled and not confirmed, with payment_status refunded if it was
\* paid before and failed otherwise.
C13_CancellationResult ==
    \A b \in bookings :
        \A out \in {cancel_booking_out(b, b.user, trips, bookings, now),
                    cancel_booking_page_out(b, b.user, trips, bookings, now)} :
            out.res = "ok" =>
                \A c \in RowsWithId(out.rows, b.id) :
                    /\ c.is_cancelled = TRUE
                    /\ c.is_confirmed = FALSE
                    /\ c.payment_status =
                        IF b.payment_status = "paid" THEN "refunded" ELSE "failed"

\* C14: a hold-creation attempt for a seat number outside 1..capacity, seat 0
\* included, ends with the seat-out-of-range outcome on both paths, and every
\* stored booking has a seat number in 1..capacity of its trip's bus.
C14_SeatRange ==
    /\ \A t \in TripIds, op \in CreatePaths, u \in Users, s \in SeatInputs :
            (Bookable(t) /\ s \notin 1..capacity(t)) =>
                AttemptOutcome(bookings, op, u, t, s) = "SeatOutOfRange"
    /\ \A b \in bookings : b.seat_number \in 1..capacity(b.trip)

\* pending rows whose hold has run out
ExpiredPending(rows, at) ==
    {b \in rows : /\ b.payment_status = "pending"
                  /\ b.hold_expires_at # Null
                  /\ b.hold_expires_at <= at}

NothingStored == trips' = trips /\ bookings' = bookings

\* C15: whenever a hold creation, a confirmation, a cancellation of a booking,
\* cancel_trip or complete_trip fails, at a precondition or at the save, the
\* stored trips and bookings are as before the call, except that holds that
\* had already expired may have been removed.
C15_NoPartialEffects ==
    /\ [](/\ \A t \in TripIds, s \in SeatInputs :
                booking_page_result(bookings, t, s, now) # "ok" =>
                    /\ booking_page_rows(bookings, t, now) \subseteq bookings
                    /\ (bookings \ booking_page_rows(bookings, t, now))
                            \subseteq ExpiredPending(bookings, now)
          /\ \A b \in bookings, u \in Users :
                /\ cancel_booking_out(b, u, trips, bookings, now).res # "ok" =>
                        cancel_booking_out(b, u, trips, bookings, now).rows = bookings
                /\ cancel_booking_page_out(b, u, trips, bookings, now).res # "ok" =>
                        cancel_booking_page_out(b, u, trips, bookings, now).rows = bookings
          /\ \A t \in TripIds :
                /\ cancel_trip_out(t, trips, bookings, now).res # "ok" =>
                    /\ cancel_trip_out(t, trips, bookings, now).trips = trips
                    /\ cancel_trip_out(t, trips, bookings, now).rows = bookings
                /\ complete_trip_out(t, trips, now).res # "ok" =>
                    complete_trip_out(t, trips, now).trips = trips)
    /\ [][\A r \in Slots :
            /\ (reqs[r].pc \in {"checked", "validated"} /\ reqs'[r] # reqs[r]
                    /\ StepResult(r) # "ok") => NothingStored
            /\ (reqs[r].pc = "fetched" /\ reqs'[r] # reqs[r]
                    /\ Booking_save(reqs[r].row, trips, bookings, now).res # "ok") =>
                        NothingStored]_vars

\* a booking_page POST for a taken seat is about to fail while an expired hold
\* of the trip is stored
C15_Witness ==
    \E t \in TripIds :
        /\ \E s \in 1..capacity(t) :
            booking_page_result(bookings, t, s, now) = "SeatUnavailable"
        /\ ExpiredHolds(bookings, t, now) # {}
        /\ \E r \in Slots : FreeSlot(r)

\* C16: a payment confirmation of a cancelled booking fails on both
\* confirmation paths and leaves the booking as it is, so that no stored
\* booking is cancelled and at the same time confirmed or paid.
C16_CancelledNeverConfirmed ==
    \A b \in bookings :
        b.is_cancelled =>
            /\ b.is_confirmed = FALSE
            /\ b.payment_status # "paid"
            /\ payment_page_result(bookings, b.user, b.id) # "ok"
            /\ FakePaymentAPIView_post_result(bookings, b.user, b.id) = "ok" =>
                    ConfirmOut(b, "FakePayment").res # "ok"

\* C17: a payment confirmation of a stored, non-cancelled hold by its holder
\* succeeds on both confirmation paths, also when the active bookings of the
\* trip, this hold among them, number exactly the capacity of the bus.
C17_ConfirmationSucceeds ==
    \A b \in bookings :
        OpenHold(b) =>
            /\ payment_page_result(bookings, b.user, b.id) = "ok"
            /\ FakePaymentAPIView_post_result(bookings, b.user, b.id) = "ok"
            /\ \A op \in ConfirmPaths : ConfirmOut(b, op).res = "ok"

\* C18: on a bookable trip every seat Trip.available_seats returns now can be
\* reserved now by a hold-creation attempt on either path with nothing in
\* between, also while an expired hold of the seat is still stored and at the
\* very instant the hold expires.  Stated for the states in which every stored
\* booking has a seat number of the bus.
C18_NoPhantomSeat ==
    \A t \in TripIds :
        (Bookable(t) /\ \A b \in bookings : b.seat_number \in 1..capacity(b.trip)) =>
            \A s \in available_seats(bookings, t, now), op \in CreatePaths, u \in Users :
                AttemptOutcome(bookings, op, u, t, s) = "ok"

\* the seat-state reads that decide: the two hold-creation paths and the
\* availability query of TripSerializer and trips_page
DecisionPaths == CreatePaths \cup {"get_available_seats"}

\* the rows such a read finds: booking_page has deleted expired holds just
\* before, create_booking and Trip.available_seats read the table as it is
DecisionRows(op, rows, t, at) ==
    IF op = "booking_page" THEN booking_page_rows(rows, t, at) ELSE rows

\* C19: every availability query and every hold-creation precondition check
\* reads the bookings of the trip after a sweep: at the decision no stored
\* booking of the trip is pending with hold_expires_at <= now.
C19_SweepBeforeDecision ==
    \A t \in TripIds, op \in DecisionPaths :
        departure_time(t) > now =>
            TripBookings(DecisionRows(op, bookings, t, now), t)
                \cap ExpiredPending(bookings, now) = {}

\* C20: a trip whose status is completed or cancelled keeps that status under
\* every further complete_trip and cancel_trip; cancel_trip on a completed
\* trip fails and leaves the bookings of the trip as they are.
C20_TerminalTripStates ==
    /\ [][\A t \in TripIds :
            trips[t].status \in {"completed", "cancelled"} =>
                trips'[t].status = trips[t].status]_vars
    /\ [](\A t \in TripIds :
            trips[t].status = "completed" =>
                /\ cancel_trip_out(t, trips, bookings, now).res # "ok"
                /\ cancel_trip_out(t, trips, bookings, now).rows = bookings
                /\ complete_trip_out(t, trips, now).res # "ok")

\* C21: cancel_trip on a trip whose status is cancelled fails with the
\* trip-already-cancelled outcome and changes neither the trip nor any booking.
C21_CancelTripAlreadyCancelled ==
    \A t \in TripIds :
        trips[t].status = "cancelled" =>
            /\ cancel_trip_out(t, trips, bookings, now).res = "TripAlreadyCancelled"
            /\ cancel_trip_out(t, trips, bookings, now).trips = trips
            /\ cancel_trip_out(t, trips, bookings, now).rows = bookings

\* a cancelled trip that has departed and owns a booking
C21_Witness ==
    \E t \in TripIds :
        /\ trips[t].status = "cancelled"
        /\ TripBookings(bookings, t) # {}
        /\ departure_time(t) < now

\* C22: complete_trip succeeds only on a scheduled trip and fails without a
\* change on a completed or cancelled one; a trip that becomes completed was
\* scheduled, is inactive afterwards, and no booking row changes in that step.
C22_TripCompletion ==
    /\ [](\A t \in TripIds :
            LET out == complete_trip_out(t, trips, now)
            IN  /\ out.res = "ok" => /\ trips[t].status = "scheduled"
                                     /\ out.trips[t].status = "completed"
                                     /\ out.trips[t].is_active = FALSE
                /\ trips[t].status # "scheduled" => out.res # "ok" /\ out.trips = trips)
    /\ [][\A t \in TripIds :
            (trips'[t].status = "completed" /\ trips[t].status # "completed") =>
                /\ trips[t].status = "scheduled"
                /\ trips'[t].is_active = FALSE
                /\ bookings' = bookings]_vars

\* a completed trip that kept a confirmed booking
C22_Witness ==
    \E t \in TripIds :
        /\ trips[t].status = "completed"
        /\ \E b \in TripBookings(bookings, t) : b.is_confirmed /\ ~b.is_cancelled

\* C23: a confirmation or a cancellation of a booking asked for by a user who
\* is not its holder fails on every path (cancel_booking, CancelBookingAPIView,
\* cancel_booking_page, payment_page, FakePaymentAPIView) and leaves the
\* booking unchanged.
C23_Ownership ==
    \A b \in bookings, u \in Users :
        u # b.user =>
            /\ cancel_booking_out(b, u, trips, bookings, now).res = "NotOwner"
            /\ cancel_booking_out(b, u, trips, bookings, now).rows = bookings
            /\ CancelBookingAPIView_post_out(b, u, trips, bookings, now).res # "ok"
            /\ CancelBookingAPIView_post_out(b, u, trips, bookings, now).rows = bookings
            /\ cancel_booking_page_out(b, u, trips, bookings, now).res # "ok"
            /\ cancel_booking_page_out(b, u, trips, bookings, now).rows = bookings
            /\ payment_page_result(bookings, u, b.id) # "ok"
            /\ FakePaymentAPIView_post_result(bookings, u, b.id) # "ok"

\* two users hold bookings of the same trip, each open to the other's requests
C23_Witness ==
    \E b1 \in bookings, b2 \in bookings :
        /\ b1.user # b2.user
        /\ b1.trip = b2.trip
        /\ ~b1.is_cancelled /\ ~b2.is_cancelled

\* the preconditions of a hold creation that an attempt for seat s of trip t
\* violates now, numbered in the order in which they are to be checked
ViolatedPreconditions(t, s) ==
    {n \in 1..5 :
        \/ n = 1 /\ ~(trips[t].status = "scheduled" /\ trips[t].is_active)
        \/ n = 2 /\ departure_time(t) <= now
        \/ n = 3 /\ s \notin 1..capacity(t)
        \/ n = 4 /\ ActiveOn(t, s) # {}
        \/ n = 5 /\ Cardinality(ActiveOf(t)) >= capacity(t)}

PreconditionError(n) ==
    IF n = 1 THEN "TripNotBookable"
    ELSE IF n = 2 THEN "TripDeparted"
    ELSE IF n = 3 THEN "SeatOutOfRange"
    ELSE IF n = 4 THEN "SeatUnavailable"
    ELSE "TripFull"

FirstViolated(t, s) ==
    CHOOSE n \in ViolatedPreconditions(t, s) :
        \A m \in ViolatedPreconditions(t, s) : n <= m

\* C24: on both holder-initiated cancellation paths, cancelling a booking of a
\* completed trip fails with the trip-completed outcome and leaves the booking
\* unchanged.
C24_CancelOnCompletedTrip ==
    \A b \in bookings :
        (~b.is_cancelled /\ trips[b.trip].status = "completed") =>
            /\ cancel_booking_out(b, b.user, trips, bookings, now).res = "TripCompleted"
            /\ cancel_booking_out(b, b.user, trips, bookings, now).rows = bookings
            /\ cancel_booking_page_out(b, b.user, trips, bookings, now).res = "TripCompleted"
            /\ cancel_booking_page_out(b, b.user, trips, bookings, now).rows = bookings

\* C25: a hold-creation attempt that violates several preconditions at once
\* reports the first violated one in the order trip-not-bookable,
\* trip-departed, seat-out-of-range, seat-unavailable, trip-full, on both paths.
C25_PreconditionOrder ==
    \A t \in TripIds, s \in SeatInputs, op \in CreatePaths, u \in Users :
        Cardinality(ViolatedPreconditions(t, s)) >= 2 =>
            AttemptOutcome(bookings, op, u, t, s) = PreconditionError(FirstViolated(t, s))

\* C26: in every reachable state a stored booking has a hold_expires_at only
\* if its payment_status is pending and it is not confirmed.
C26_HoldExpiresAtInvariant ==
    \A b \in bookings :
        b.hold_expires_at # Null =>
            b.payment_status = "pending" /\ b.is_confirmed = FALSE

\* C27: the release of expired holds of booking_page, run twice in a row at the
\* same time on the same trip, leaves the same rows as one run.
C27_SweepIdempotent ==
    \A t \in TripIds :
        /\ Sweep(Sweep(bookings, t, now), t, now) = Sweep(bookings, t, now)
        /\ booking_page_rows(booking_page_rows(bookings, t, now), t, now)
                = booking_page_rows(bookings, t, now)

\* two expired holds of a trip are stored when the sweep runs
C27_Witness ==
    \E t \in TripIds :
        /\ Cardinality(ExpiredHolds(bookings, t, now)) >= 2
        /\ departure_time(t) > now

\* C28: a hold creation that runs concurrently with cancel_trip or
\* complete_trip decides on the trip state current at its own write: a booking
\* is inserted only while its trip is scheduled and active, and once no hold
\* creation is in flight a cancelled trip has no non-cancelled booking.
C28_NoStaleTripAllocation ==
    /\ [][next_id' # next_id =>
            \A b \in bookings' :
                b.id = next_id =>
                    trips[b.trip].status = "scheduled" /\ trips[b.trip].is_active]_vars
    /\ [](\A t \in TripIds :
            (trips[t].status = "cancelled" /\ InFlightCreates = 0) =>
                \A b \in TripBookings(bookings, t) : b.is_cancelled)

NonCancelledOn(t, s) ==
    {b \in bookings : b.trip = t /\ b.seat_number = s /\ ~b.is_cancelled}

\* C29: in every reachable state at most one stored booking per trip and seat
\* number has is_cancelled = false, active or not; an expired hold that was not
\* swept keeps another non-cancelled booking of its seat from being inserted.
C29_OneNonCancelledPerSeat ==
    /\ [](\A t \in TripIds, s \in SeatInputs : Cardinality(NonCancelledOn(t, s)) <= 1)
    /\ [][\A r \in Slots :
            (/\ reqs[r].pc = "validated"
             /\ NonCancelledOn(reqs[r].row.trip, reqs[r].row.seat_number) # {}) =>
                (reqs'[r] # reqs[r] => bookings' = bookings)]_vars

\* an insert has passed validation while an expired hold of its seat is stored
C29_Witness ==
    \E r \in Slots :
        /\ reqs[r].pc = "validated"
        /\ \E b \in NonCancelledOn(reqs[r].row.trip, reqs[r].row.seat_number) :
            ~Active(b)

\* C30: in every reachable state every booking that is confirmed and not
\* cancelled has payment_status paid, so the seats Trip.booked_seats selects
\* are the seats of the bookings the conflict predicate of Booking.clean
\* selects.
C30_ConfirmedIsPaid ==
    /\ \A b \in bookings :
            (~b.is_cancelled /\ b.is_confirmed) => b.payment_status = "paid"
    /\ \A t \in TripIds :
            booked_seats(bookings, t, now)
                = {b.seat_number : b \in ActiveBookings(bookings, t, now)}

\* a confirmed booking is stored next to a cancelled one that was refunded or
\* marked failed
C30_Witness ==
    \E b \in bookings, c \in bookings :
        /\ b.is_confirmed /\ ~b.is_cancelled
        /\ c.is_cancelled /\ c.payment_status \in {"refunded", "failed"}

\* C31: a stored booking that is cancelled stays cancelled under every
\* operation and interleaving, also under a payment confirmation that read it
\* before the cancellation was committed and saves afterwards.
C31_CancellationPermanent ==
    [][\A b \in bookings :
        b.is_cancelled =>
            \A c \in RowsWithId(bookings', b.id) : c.is_cancelled]_vars

\* complete_trip and cancel_trip fail on trip t and would store nothing
TripServicesFail(t) ==
    /\ complete_trip_out(t, trips, now).res # "ok"
    /\ complete_trip_out(t, trips, now).trips = trips
    /\ cancel_trip_out(t, trips, bookings, now).res # "ok"
    /\ cancel_trip_out(t, trips, bookings, now).trips = trips
    /\ cancel_trip_out(t, trips, bookings, now).rows = bookings

\* C32 as stated: complete_trip and cancel_trip on a trip whose departure_time
\* is earlier than now fail and leave the trip and its bookings unchanged, and
\* the status of a trip changes only before its departure time.
C32_OnlyBeforeDeparture ==
    /\ [](\A t \in TripIds : departure_time(t) < now => TripServicesFail(t))
    /\ [][\A t \in TripIds :
            trips'[t].status # trips[t].status => now < departure_time(t)]_vars

\* C32 as amended: the same, where the status of a trip changes only at or
\* before its departure time.
C32_NotAfterDeparture ==
    /\ [](\A t \in TripIds : departure_time(t) < now => TripServicesFail(t))
    /\ [][\A t \in TripIds :
            trips'[t].status # trips[t].status => now <= departure_time(t)]_vars

\* a scheduled trip with a confirmed booking has departed
C32_Witness ==
    \E t \in TripIds :
        /\ departure_time(t) < now
        /\ trips[t].status = "scheduled"
        /\ \E b \in TripBookings(bookings, t) : b.is_confirmed /\ ~b.is_cancelled

\* C34: the release of expired holds of booking_page deletes no booking that
\* is active at that time and no booking whose payment_status is paid, failed
\* or refunded, and changes no booking it keeps.
C34_SweepSparesActive ==
    \A t \in TripIds :
        /\ Sweep(bookings, t, now) \subseteq bookings
        /\ \A b \in bookings \ Sweep(bookings, t, now) :
            /\ ~Active(b)
            /\ b.payment_status \notin {"paid", "failed", "refunded"}

\* the sweep has an expired hold to delete while a confirmed booking of the
\* trip still carries a hold_expires_at in the past
C34_Witness ==
    \E t \in TripIds :
        /\ ExpiredHolds(bookings, t, now) # {}
        /\ \E b \in TripBookings(bookings, t) :
            Active(b) /\ b.hold_expires_at # Null /\ b.hold_expires_at < now

\* trips trs2 and rows rows2 differ from the stored ones on trip T at most
SameElsewhere(T, trs2, rows2) ==
    \A t \in TripIds \ {T} :
        /\ trs2[t] = trips[t]
        /\ TripBookings(rows2, t) = TripBookings(bookings, t)

\* C33: a hold creation, a sweep, a confirmation, a cancellation of a booking,
\* cancel_trip and complete_trip that act on trip T, or on a booking of T,
\* leave every other trip and every booking of every other trip unchanged.
C33_TripIsolation ==
    /\ [](/\ \A T \in TripIds :
                /\ SameElsewhere(T, trips, booking_page_rows(bookings, T, now))
                /\ SameElsewhere(T, cancel_trip_out(T, trips, bookings, now).trips,
                                    cancel_trip_out(T, trips, bookings, now).rows)
                /\ SameElsewhere(T, complete_trip_out(T, trips, now).trips, bookings)
          /\ \A b \in bookings, u \in Users :
                /\ SameElsewhere(b.trip, trips,
                        cancel_booking_out(b, u, trips, bookings, now).rows)
                /\ SameElsewhere(b.trip, trips,
                        cancel_booking_page_out(b, u, trips, bookings, now).rows)
          /\ \A b \in bookings, op \in ConfirmPaths :
                SameElsewhere(b.trip, trips, ConfirmOut(b, op).rows))
    /\ [][/\ \A r \in Slots :
                (reqs[r].pc # "idle" /\ reqs'[r] # reqs[r]) =>
                    \A t \in TripIds \ {reqs[r].row.trip} :
                        /\ trips'[t] = trips[t]
                        /\ TripBookings(bookings', t) = TripBookings(bookings, t)
          /\ \E T \in TripIds :
                \A t \in TripIds \ {T} :
                    /\ trips'[t] = trips[t]
                    /\ TripBookings(bookings', t) = TripBookings(bookings, t)]_vars

\* one trip was cancelled with a booking of a seat, while the other trip keeps
\* a booking of the same seat number that is not cancelled
C33_Witness ==
    \E b1 \in bookings, b2 \in bookings :
        /\ b1.trip # b2.trip
        /\ b1.seat_number = b2.seat_number
        /\ trips[b1.trip].status = "cancelled" /\ b1.is_cancelled
        /\ trips[b2.trip].status = "scheduled" /\ ~b2.is_cancelled

=============================================================================
